---- MODULE Spec2Model ----
(***************************************************************************)
(* A model of the two pieces of custom logic of the researcher-agent       *)
(* service:                                                                *)
(*                                                                         *)
(*   - the span attribute truncation step of CloudTraceLoggingSpanExporter *)
(*     (src/tracing.py), and                                               *)
(*   - the knowledge lookups research_topic and analyze_trends             *)
(*     (src/research_agent/agent.py).                                      *)
(*                                                                         *)
(* The two components share no state; each has its own specification       *)
(* (SpecTruncator, SpecLookup) that leaves the other's variables alone.    *)
(***************************************************************************)
EXTENDS Integers, Sequences, FiniteSets, TLC

VARIABLES
    span_dict,      \* tracing.py: the span dictionary being exported
    history,        \* ghost: the span dictionary before and after each pass
    logging_info,   \* tracing.py: logging.info entries of the latest pass
    call,           \* agent.py: the latest tool call (function and arguments)
    result,         \* agent.py: the record that call returned
    spelling,       \* ghost: the lower-case, trimmed spelling the arguments
                    \*        of the latest call were written from
    log_text,       \* agent.py: the latest logger.log_text entry
    spans,          \* tracing.py: the batch of spans export is given
    span_index,     \* tracing.py: the number of spans the loop of export has done
    cloud_logging,  \* tracing.py: the log_struct calls made on the logger
    cloud_trace,    \* tracing.py: the batches given to the parent's export
    tasks,          \* agent.py: the tool calls of the concurrent tasks
    tables          \* agent.py: the table objects the tool calls have built

truncatorVars == <<span_dict, history, logging_info>>
lookupVars == <<call, result, spelling, log_text>>
exportVars == <<spans, span_index, cloud_logging, cloud_trace>>
concurrentVars == <<tasks, tables>>
vars == <<span_dict, history, logging_info, call, result, spelling, log_text,
          spans, span_index, cloud_logging, cloud_trace, tasks, tables>>

\* no batch is being exported
ExportIdle ==
    /\ spans = <<>>
    /\ span_index = 0
    /\ cloud_logging = <<>>
    /\ cloud_trace = <<>>

\* no task is calling a tool
ConcurrentIdle ==
    /\ tasks = <<>>
    /\ tables = <<>>

(***************************************************************************)
(* Bounds of the model.                                                    *)
(***************************************************************************)
\* number of attribute keys a span may carry
MaxKeys == 2
\* string lengths are taken at each threshold and up to MaxOver above it
MaxOver == 1
\* number of times the truncation step is applied to one span
MaxPasses == 2
\* number of whitespace characters put on each side of a tool argument
MaxPad == 1
\* number of spans in one batch given to export
MaxSpans == 2
\* number of tasks calling the tools concurrently
MaxTasks == 2
\* number of tool calls made by all tasks together
MaxCalls == 3

(***************************************************************************)
(* Python strings of the telemetry record.  An attribute value may hold    *)
(* hundreds of thousands of characters, so a string is kept run-length     *)
(* encoded: a sequence of runs [c |-> character, n |-> repetitions], n > 0,*)
(* adjacent runs holding different characters.  Two strings are equal iff  *)
(* their encodings are.  A character is a one-character TLA+ string, or    *)
(* the name of a code point outside ASCII.                                 *)
(***************************************************************************)
E_ACUTE == "U+00E9"
EURO == "U+20AC"
GRINNING == "U+1F600"
QUOTE == "\""

\* bytes of character c in str.encode() (UTF-8)
Utf8Bytes(c) ==
    CASE c = E_ACUTE -> 2
      [] c = EURO -> 3
      [] c = GRINNING -> 4
      [] OTHER -> 1

\* bytes of character c inside a json.dumps string (ensure_ascii=True):
\* a quote is escaped as \", a BMP code point as \uXXXX, an astral one as a
\* surrogate pair \uXXXX\uXXXX
JsonBytes(c) ==
    CASE c = QUOTE -> 2
      [] c = E_ACUTE -> 6
      [] c = EURO -> 6
      [] c = GRINNING -> 12
      [] OTHER -> 1

\* c repeated n times
Rep(c, n) == IF n <= 0 THEN <<>> ELSE <<[c |-> c, n |-> n]>>

\* s + t
Concat(s, t) ==
    IF s = <<>> THEN t
    ELSE IF t = <<>> THEN s
    ELSE IF s[Len(s)].c = t[1].c
         THEN SubSeq(s, 1, Len(s) - 1)
              \o <<[c |-> t[1].c, n |-> s[Len(s)].n + t[1].n]>>
              \o Tail(t)
         ELSE s \o t

\* the encoding of a string literal
RECURSIVE FromText(_)
FromText(text) ==
    IF Len(text) = 0 THEN <<>>
    ELSE Concat(Rep(SubSeq(text, 1, 1), 1), FromText(SubSeq(text, 2, Len(text))))

\* len(s.encode())
RECURSIVE Utf8Len(_)
Utf8Len(s) ==
    IF s = <<>> THEN 0 ELSE Head(s).n * Utf8Bytes(Head(s).c) + Utf8Len(Tail(s))

\* s[:k], k >= 0: the first k characters
RECURSIVE Slice(_, _)
Slice(s, k) ==
    IF k <= 0 \/ s = <<>> THEN <<>>
    ELSE IF Head(s).n <= k
         THEN Concat(<<Head(s)>>, Slice(Tail(s), k - Head(s).n))
         ELSE Rep(Head(s).c, k)

\* len(json.dumps(s)) of a string: the escaped characters between two quotes
RECURSIVE JsonEscapedLen(_)
JsonEscapedLen(s) ==
    IF s = <<>> THEN 0
    ELSE Head(s).n * JsonBytes(Head(s).c) + JsonEscapedLen(Tail(s))

(***************************************************************************)
(* Attribute values: strings, integers and booleans, tagged by type.       *)
(***************************************************************************)
StrVal(s) == [type |-> "str", s |-> s]
IntVal(i) == [type |-> "int", i |-> i]
BoolVal(b) == [type |-> "bool", b |-> b]
\* a sequence of strings
ListVal(items) == [type |-> "list", items |-> items]

\* isinstance(value, str)
IsStr(value) == value.type = "str"

\* the number of decimal digits of i >= 0
RECURSIVE Digits(_)
Digits(i) == IF i < 10 THEN 1 ELSE 1 + Digits(i \div 10)

\* len(json.dumps(items)) of a list of strings: ["item", "item"]
RECURSIVE JsonItemsLen(_)
JsonItemsLen(items) ==
    IF items = <<>> THEN 0
    ELSE 2 + JsonEscapedLen(Head(items))
         + (IF Len(items) > 1 THEN 2 ELSE 0)
         + JsonItemsLen(Tail(items))

\* len(json.dumps(value))
JsonValueLen(value) ==
    CASE value.type = "str" -> 2 + JsonEscapedLen(value.s)
      [] value.type = "list" -> 2 + JsonItemsLen(value.items)
      [] value.type = "int" ->
            IF value.i < 0 THEN 1 + Digits(-value.i) ELSE Digits(value.i)
      [] value.type = "bool" -> IF value.b THEN 4 ELSE 5

\* the sum of f[k] over the keys k of f
RECURSIVE SumOver(_)
SumOver(f) ==
    IF DOMAIN f = {} THEN 0
    ELSE LET k == CHOOSE x \in DOMAIN f : TRUE
         IN f[k] + SumOver([x \in DOMAIN f \ {k} |-> f[x]])

\* len(json.dumps(attributes).encode()): {"key": value, "key": value}; the
\* keys are ASCII, the output of json.dumps is ASCII throughout
JsonLen(attributes) ==
    LET n == Cardinality(DOMAIN attributes)
        item == [k \in DOMAIN attributes |->
                    (2 + Len(k)) + 2 + JsonValueLen(attributes[k])]
    IN 2 + SumOver(item) + (IF n > 0 THEN 2 * (n - 1) ELSE 0)

(***************************************************************************)
(* CloudTraceLoggingSpanExporter._process_large_attributes                 *)
(***************************************************************************)
\* max_size = 200 * 1024
max_size == 200 * 1024
\* the per-attribute threshold of the isinstance/len test
AttrLimit == 10000
\* the slice bound of value[:9900]
SliceLen == 9900
TruncatedSuffix == FromText("... [truncated]")

\* the test with >= for >
ShouldTruncateAtLimit(value) == IsStr(value) /\ Utf8Len(value.s) >= AttrLimit

\* isinstance(value, str) and len(value.encode()) > 10000
ShouldTruncate(value) == IsStr(value) /\ Utf8Len(value.s) > AttrLimit

\* value[:9900] + "... [truncated]"
TruncatedValue(value) == StrVal(Concat(Slice(value.s, SliceLen), TruncatedSuffix))

\* len(json.dumps(attributes).encode()) > max_size
OverTotal(attributes) == JsonLen(attributes) > max_size

\* the dictionary the loop over attributes.items() builds
truncated_attributes(attributes) ==
    [key \in DOMAIN attributes |->
        IF ShouldTruncate(attributes[key])
        THEN TruncatedValue(attributes[key])
        ELSE attributes[key]]

\* the step without its test of the total size
ProcessedRegardless(attributes) == truncated_attributes(attributes)

\* the attributes of the span dictionary the step returns
ProcessedAttributes(attributes) ==
    IF OverTotal(attributes) THEN truncated_attributes(attributes) ELSE attributes

\* the attribute keys a span may carry, in the order the dictionary holds them
KeyName(i) == "k" \o SubSeq("0123456789", i + 1, i + 1)
Keys == {KeyName(i) : i \in 1..MaxKeys}

TruncatedEntry(key) ==
    "Truncated large attribute '" \o key \o "' to stay within logging limits"
ProcessedEntry ==
    "Processed large span attributes by truncating to fit Cloud Logging limits"

\* the logging.info entries of the loop, for the keys from the i-th on
RECURSIVE LoopEntries(_, _)
LoopEntries(attributes, i) ==
    IF i > MaxKeys THEN <<>>
    ELSE (IF KeyName(i) \in DOMAIN attributes /\ ShouldTruncate(attributes[KeyName(i)])
          THEN <<TruncatedEntry(KeyName(i))>>
          ELSE <<>>)
         \o LoopEntries(attributes, i + 1)

\* every logging.info entry of one run of the step
LogEntries(attributes) ==
    IF OverTotal(attributes)
    THEN LoopEntries(attributes, 1) \o <<ProcessedEntry>>
    ELSE <<>>

(***************************************************************************)
(* The spans the truncation step is given.                                 *)
(***************************************************************************)
WideChars == {"a", E_ACUTE, EURO, GRINNING}

\* lengths at the byte threshold of the character and at the slice bound
LengthsFor(c) ==
    {AttrLimit \div Utf8Bytes(c) + d : d \in 0..MaxOver}
    \cup {SliceLen - 1 + d : d \in 0..MaxOver}

InputStrings ==
    UNION {{Rep(c, n) : n \in LengthsFor(c)} : c \in WideChars}
    \cup {Rep("a", max_size + 1),
          Rep(QUOTE, AttrLimit),
          Concat(Rep("a", SliceLen - 1), Rep(GRINNING, 26))}

\* a list of strings, each at the per-attribute limit, that is over the total
\* limit as a whole
LargeList == [i \in 1..(max_size \div AttrLimit + 1) |-> Rep("a", AttrLimit)]

InputValues ==
    {StrVal(s) : s \in InputStrings}
    \cup {IntVal(200), BoolVal(TRUE), ListVal(LargeList)}

InputAttributes ==
    UNION {[ks -> InputValues] : ks \in SUBSET Keys}

NoCall == [fn |-> "none"]
NoResult == [status |-> "none"]
NoSpelling == [fn |-> "none"]

LookupIdle ==
    /\ call = NoCall
    /\ result = NoResult
    /\ spelling = NoSpelling
    /\ log_text = ""

InitTruncator ==
    /\ \E attributes \in InputAttributes :
          /\ span_dict = [name |-> "call_llm", attributes |-> attributes]
          /\ history = <<[name |-> "call_llm", attributes |-> attributes]>>
    /\ logging_info = <<>>
    /\ LookupIdle
    /\ ExportIdle
    /\ ConcurrentIdle

\* one run of _process_large_attributes on the span dictionary
ProcessLargeAttributes ==
    /\ Len(history) <= MaxPasses
    /\ span_dict' = [span_dict EXCEPT
                        !.attributes = ProcessedAttributes(span_dict.attributes)]
    /\ history' = Append(history, span_dict')
    /\ logging_info' = LogEntries(span_dict.attributes)
    /\ UNCHANGED <<lookupVars, exportVars, concurrentVars>>

NextTruncator == ProcessLargeAttributes

SpecTruncator == InitTruncator /\ [][NextTruncator]_vars

(***************************************************************************)
(* The knowledge lookups.  Tool arguments are short, so a string is a TLA+ *)
(* string here; SubSeq(s, i, i) is its i-th character.                     *)
(***************************************************************************)
UpperLetters == "ABCDEFGHIJKLMNOPQRSTUVWXYZ"
LowerLetters == "abcdefghijklmnopqrstuvwxyz"
\* the characters str.strip() removes, among those the arguments are written in
Whitespace == {" ", "\t", "\n", "\r"}

\* str.lower() of one character
LowerChar(c) ==
    IF \E i \in 1..Len(UpperLetters) : SubSeq(UpperLetters, i, i) = c
    THEN LET i == CHOOSE j \in 1..Len(UpperLetters) : SubSeq(UpperLetters, j, j) = c
         IN SubSeq(LowerLetters, i, i)
    ELSE c

\* s.lower()
RECURSIVE lower(_)
lower(s) ==
    IF Len(s) = 0 THEN ""
    ELSE LowerChar(SubSeq(s, 1, 1)) \o lower(SubSeq(s, 2, Len(s)))

\* s.lstrip()
RECURSIVE lstrip(_)
lstrip(s) ==
    IF Len(s) > 0 /\ SubSeq(s, 1, 1) \in Whitespace
    THEN lstrip(SubSeq(s, 2, Len(s)))
    ELSE s

\* s.rstrip()
RECURSIVE rstrip(_)
rstrip(s) ==
    IF Len(s) > 0 /\ SubSeq(s, Len(s), Len(s)) \in Whitespace
    THEN rstrip(SubSeq(s, 1, Len(s) - 1))
    ELSE s

\* s.strip()
strip(s) == rstrip(lstrip(s))

\* normalization that forgets to strip
LowerOnly(s) == lower(s)

\* s.lower().strip()
Normalize(s) == strip(lower(s))

\* the knowledge base of research_topic: topic -> focus area -> insights
knowledge_base ==
    "artificial intelligence" :>
       [
         general |->
           "AI is a rapidly evolving field focused on creating machines that can perform tasks typically requiring human intelligence. Key areas include machine learning, natural language processing, computer vision, and robotics. Current trends show significant advancement in large language models, generative AI, and autonomous systems.",
         technical |->
           "AI encompasses various approaches including supervised/unsupervised learning, neural networks, deep learning architectures (CNNs, RNNs, Transformers), reinforcement learning, and symbolic AI. Modern architectures like attention mechanisms and transformer models have revolutionized NLP and multimodal applications.",
         business |->
           "AI is transforming industries through automation, predictive analytics, personalized experiences, and decision support systems. Companies are investing heavily in AI infrastructure, talent acquisition, and ethical AI practices. Key challenges include ROI measurement, data quality, and integration complexity.",
         social |->
           "AI raises important questions about job displacement, privacy, bias in algorithms, and the future of human-machine collaboration. Discussions focus on AI governance, ethical frameworks, transparency, and ensuring AI benefits society broadly."
       ]
    @@
    "climate change" :>
       [
         general |->
           "Climate change refers to long-term shifts in global temperatures and weather patterns, primarily driven by human activities since the Industrial Revolution. Key indicators include rising global temperatures, melting ice caps, sea level rise, and extreme weather events.",
         technical |->
           "Climate science involves understanding greenhouse gas emissions (CO2, CH4, N2O), feedback loops, climate modeling, and mitigation technologies. Solutions include renewable energy systems, carbon capture, energy efficiency, and sustainable transportation technologies.",
         business |->
           "Climate change presents both risks and opportunities for businesses. Companies are adopting sustainability practices, ESG reporting, carbon accounting, and climate risk assessments. Green finance and sustainable business models are becoming competitive advantages.",
         social |->
           "Climate change disproportionately affects vulnerable populations and raises questions of climate justice, adaptation strategies, and international cooperation. Social movements and policy advocacy play crucial roles in driving climate action."
       ]
    @@
    "blockchain" :>
       [
         general |->
           "Blockchain is a distributed ledger technology that maintains a continuously growing list of records, linked and secured using cryptography. It enables decentralized, transparent, and immutable record-keeping without requiring a central authority.",
         technical |->
           "Blockchain systems use cryptographic hashing, consensus mechanisms (Proof of Work, Proof of Stake), smart contracts, and distributed networks. Key technical challenges include scalability, energy consumption, and interoperability between different blockchain networks.",
         business |->
           "Blockchain applications span cryptocurrency, supply chain management, digital identity, decentralized finance (DeFi), and non-fungible tokens (NFTs). Businesses are exploring blockchain for transparency, reducing intermediaries, and creating new business models.",
         social |->
           "Blockchain raises questions about financial inclusion, regulatory frameworks, energy consumption, and the decentralization of traditional institutions. It has potential to increase transparency and reduce corruption in various sectors."
       ]

\* the trend table of analyze_trends: domain -> trend structure
trend_analysis ==
    "technology" :>
       [ key_trends |->
           <<
              "Generative AI and Large Language Models",
              "Edge Computing and IoT Integration",
              "Quantum Computing Development",
              "Sustainable Technology Solutions",
              "Extended Reality (AR/VR/MR)"
           >>,
         emerging_patterns |->
           "Technology is moving toward more distributed, intelligent, and sustainable solutions. AI integration is becoming ubiquitous across all tech sectors.",
         future_outlook |->
           "Continued convergence of AI, cloud computing, and sustainable practices will shape the next decade of technological development."
       ]
    @@
    "business" :>
       [ key_trends |->
           <<
              "Digital Transformation Acceleration",
              "Remote and Hybrid Work Models",
              "ESG and Sustainability Focus",
              "Customer Experience Personalization",
              "Data-Driven Decision Making"
           >>,
         emerging_patterns |->
           "Businesses are prioritizing agility, sustainability, and customer-centricity while leveraging technology for competitive advantage.",
         future_outlook |->
           "Organizations that successfully balance human-centered approaches with technological innovation will lead market transformations."
       ]
    @@
    "science" :>
       [ key_trends |->
           <<
              "Interdisciplinary Research Collaboration",
              "AI-Assisted Scientific Discovery",
              "Open Science and Data Sharing",
              "Climate Science and Environmental Research",
              "Precision Medicine and Biotechnology"
           >>,
         emerging_patterns |->
           "Scientific research is becoming more collaborative, data-intensive, and focused on addressing global challenges.",
         future_outlook |->
           "Integration of AI tools with traditional scientific methods will accelerate discovery and innovation across all fields."
       ]
\* the default of topic_data.get("general", ...)
LimitedInformation == "Limited information available for this focus area."

\* the lookup that answers every focus area with the general entry
GeneralContent(topic_data, focus_normalized) == topic_data["general"]

\* the lookup without the fall back to the general entry
ContentWithoutFallback(topic_data, focus_normalized) ==
    IF focus_normalized \in DOMAIN topic_data
    THEN topic_data[focus_normalized]
    ELSE LimitedInformation

\* research_content: the entry of the focus area, else the general entry,
\* else the default text
ResearchContent(topic_data, focus_normalized) ==
    IF focus_normalized \in DOMAIN topic_data
    THEN topic_data[focus_normalized]
    ELSE IF "general" \in DOMAIN topic_data
         THEN topic_data["general"]
         ELSE LimitedInformation

\* the error message of research_topic
TopicErrorMessage(topic) ==
    "Sorry, I don't have comprehensive research data for '" \o topic
    \o "'. Available topics include: artificial intelligence, climate change, blockchain."

\* the message quoting the normalized domain
DomainErrorMessageNormalized(domain) ==
    "Sorry, trend analysis not available for '" \o Normalize(domain)
    \o "'. Available domains: technology, business, science."

\* the error message of analyze_trends
DomainErrorMessage(domain) ==
    "Sorry, trend analysis not available for '" \o domain
    \o "'. Available domains: technology, business, science."

\* research_topic(topic, focus_area): the returned dictionary
research_topic(topic, focus_area) ==
    LET topic_normalized == Normalize(topic)
        focus_normalized == Normalize(focus_area)
    IN IF topic_normalized \in DOMAIN knowledge_base
       THEN [status |-> "success",
             research |->
                [topic |-> topic,
                 focus_area |-> focus_area,
                 insights |->
                    ResearchContent(knowledge_base[topic_normalized], focus_normalized),
                 methodology |-> "Analysis based on existing knowledge base",
                 last_updated |-> "Knowledge current as of training data"]]
       ELSE [status |-> "error", error_message |-> TopicErrorMessage(topic)]

\* analyze_trends echoing the normalized domain
AnalyzeTrendsEchoNormalized(domain) ==
    LET domain_normalized == Normalize(domain)
    IN IF domain_normalized \in DOMAIN trend_analysis
       THEN [status |-> "success",
             analysis |-> trend_analysis[domain_normalized],
             domain |-> domain_normalized,
             analysis_date |-> "Based on current knowledge patterns"]
       ELSE [status |-> "error", error_message |-> DomainErrorMessage(domain)]

\* analyze_trends(domain): the returned dictionary
analyze_trends(domain) ==
    LET domain_normalized == Normalize(domain)
    IN IF domain_normalized \in DOMAIN trend_analysis
       THEN [status |-> "success",
             analysis |-> trend_analysis[domain_normalized],
             domain |-> domain,
             analysis_date |-> "Based on current knowledge patterns"]
       ELSE [status |-> "error", error_message |-> DomainErrorMessage(domain)]

\* the logger.log_text entries of the two tools
ResearchLogText(topic, focus_area) ==
    "--- Tool: research_topic called for topic: " \o topic
    \o ", focus: " \o focus_area \o " ---"
TrendsLogText(domain) ==
    "--- Tool: analyze_trends called for domain: " \o domain \o " ---"

(***************************************************************************)
(* The arguments the tools are called with: a lower-case, trimmed spelling *)
(* written in some letter case between some surrounding whitespace.        *)
(***************************************************************************)
TopicSpellings ==
    {"artificial intelligence", "climate change", "blockchain",
     "block chain", "quantum computing"}
FocusSpellings == {"general", "technical", "business", "social", "legal", ""}
DomainSpellings ==
    {"technology", "business", "science", "unknown_domain", "climate change"}

UpperChar(c) ==
    IF \E i \in 1..Len(LowerLetters) : SubSeq(LowerLetters, i, i) = c
    THEN LET i == CHOOSE j \in 1..Len(LowerLetters) : SubSeq(LowerLetters, j, j) = c
         IN SubSeq(UpperLetters, i, i)
    ELSE c

RECURSIVE Upper(_)
Upper(s) ==
    IF Len(s) = 0 THEN ""
    ELSE UpperChar(SubSeq(s, 1, 1)) \o Upper(SubSeq(s, 2, Len(s)))

Capitalized(s) ==
    IF Len(s) = 0 THEN ""
    ELSE UpperChar(SubSeq(s, 1, 1)) \o SubSeq(s, 2, Len(s))

LetterCases == {"lower", "upper", "capitalized"}
InCase(s, letter_case) ==
    CASE letter_case = "upper" -> Upper(s)
      [] letter_case = "capitalized" -> Capitalized(s)
      [] OTHER -> s

\* n whitespace characters: a space, then a tab, then a line feed, ...
RECURSIVE Pad(_)
Pad(n) ==
    IF n <= 0 THEN ""
    ELSE Pad(n - 1) \o SubSeq(" \t\n", ((n - 1) % 3) + 1, ((n - 1) % 3) + 1)

\* the ways of writing one spelling
Written(s) ==
    {Pad(l) \o InCase(s, letter_case) \o Pad(r) :
        l \in 0..MaxPad, r \in 0..MaxPad, letter_case \in LetterCases}

TruncatorIdle ==
    /\ span_dict = [name |-> "call_llm", attributes |-> <<>>]
    /\ history = <<>>
    /\ logging_info = <<>>

\* the calls the agent runtime makes: research_topic(topic, focus_area),
\* research_topic(topic) and analyze_trends(domain), each with the spelling
\* its arguments were written from
ToolCalls ==
    UNION {
        {[call |-> [fn |-> "research_topic", topic |-> topic, focus_area |-> focus_area],
          spelling |-> [fn |-> "research_topic", topic |-> t, focus_area |-> f]] :
            topic \in Written(t), focus_area \in Written(f)} :
        t \in TopicSpellings, f \in FocusSpellings}
    \cup UNION {
        {[call |-> [fn |-> "research_topic", topic |-> topic],
          spelling |-> [fn |-> "research_topic", topic |-> t, focus_area |-> "general"]] :
            topic \in Written(t)} :
        t \in TopicSpellings}
    \cup UNION {
        {[call |-> [fn |-> "analyze_trends", domain |-> domain],
          spelling |-> [fn |-> "analyze_trends", domain |-> d]] :
            domain \in Written(d)} :
        d \in DomainSpellings}

\* the focus_area parameter of a research_topic call: "general" by default
FocusArea(c) == IF "focus_area" \in DOMAIN c THEN c.focus_area ELSE "general"

InitLookup ==
    /\ \E tool_call \in ToolCalls :
          /\ call = tool_call.call
          /\ spelling = tool_call.spelling
    /\ result = NoResult
    /\ log_text = ""
    /\ TruncatorIdle
    /\ ExportIdle
    /\ ConcurrentIdle

\* research_topic runs: it logs the call and returns its dictionary
ResearchTopic ==
    /\ call.fn = "research_topic"
    /\ result = NoResult
    /\ log_text' = ResearchLogText(call.topic, FocusArea(call))
    /\ result' = research_topic(call.topic, FocusArea(call))
    /\ UNCHANGED <<call, spelling>>
    /\ UNCHANGED <<truncatorVars, exportVars, concurrentVars>>

\* analyze_trends runs: it logs the call and returns its dictionary
AnalyzeTrends ==
    /\ call.fn = "analyze_trends"
    /\ result = NoResult
    /\ log_text' = TrendsLogText(call.domain)
    /\ result' = analyze_trends(call.domain)
    /\ UNCHANGED <<call, spelling>>
    /\ UNCHANGED <<truncatorVars, exportVars, concurrentVars>>

NextLookup == ResearchTopic \/ AnalyzeTrends

SpecLookup == InitLookup /\ [][NextLookup]_vars

(***************************************************************************)
(* CloudTraceLoggingSpanExporter.export                                    *)
(***************************************************************************)
\* self.project_id
project_id == "researcher-project"

\* format(n, "x"): n >= 0 in lower-case hexadecimal, without padding
RECURSIVE Hex(_)
Hex(n) ==
    IF n < 16 THEN SubSeq("0123456789abcdef", n + 1, n + 1)
    ELSE Hex(n \div 16) \o SubSeq("0123456789abcdef", (n % 16) + 1, (n % 16) + 1)

\* a sequence attribute of a span: a tuple of strings
TupleVal(items) == [type |-> "tuple", items |-> items]

\* json.loads(json.dumps(value)): a tuple comes back as a list; strings,
\* integers and booleans come back as they were
JsonLoadedValue(value) ==
    IF value.type = "tuple" THEN ListVal(value.items) ELSE value

JsonLoadedAttributes(attributes) ==
    [key \in DOMAIN attributes |-> JsonLoadedValue(attributes[key])]

\* span_dict after json.loads(span.to_json()) and the two annotations
AnnotatedSpanDict(span) ==
    [name |-> span.name,
     attributes |-> JsonLoadedAttributes(span.attributes),
     trace |-> "projects/" \o project_id \o "/traces/" \o Hex(span.context.trace_id),
     span_id |-> Hex(span.context.span_id)]

\* the loop body without its call of _process_large_attributes
UnprocessedSpanDict(span) == AnnotatedSpanDict(span)

\* span_dict as the loop body of export gives it to log_struct
ExportedSpanDict(span) ==
    [AnnotatedSpanDict(span) EXCEPT !.attributes = ProcessedAttributes(@)]

\* one self.logger.log_struct call
LogStruct(struct) ==
    [struct |-> struct,
     labels |-> [type |-> "agent_telemetry", service_name |-> "researcher-agent"],
     severity |-> "INFO"]

\* the attributes of the spans of a batch
ExportAttributes ==
    {[key \in {} |-> IntVal(0)],
     [key \in {KeyName(1)} |-> StrVal(Rep("a", AttrLimit + 1))],
     [key \in {KeyName(1), KeyName(2)} |->
        IF key = KeyName(1) THEN StrVal(Rep("a", max_size + 1)) ELSE IntVal(200)],
     [key \in {KeyName(1), KeyName(2)} |-> StrVal(Rep(GRINNING, SliceLen - 1))],
     [key \in {KeyName(1)} |-> TupleVal(LargeList)]}

SpanContexts == {[trace_id |-> 255, span_id |-> 10], [trace_id |-> 4096, span_id |-> 171]}

ExportSpans ==
    {[name |-> "call_llm", context |-> context, attributes |-> attributes] :
        context \in SpanContexts, attributes \in ExportAttributes}

Batches == UNION {[1..n -> ExportSpans] : n \in 0..MaxSpans}

InitExport ==
    /\ spans \in Batches
    /\ span_index = 0
    /\ cloud_logging = <<>>
    /\ cloud_trace = <<>>
    /\ TruncatorIdle
    /\ LookupIdle
    /\ ConcurrentIdle

\* one iteration of the loop of export: the span dictionary is built,
\* annotated, truncated and logged
ExportSpan ==
    /\ span_index < Len(spans)
    /\ cloud_trace = <<>>
    /\ LET span == spans[span_index + 1]
       IN /\ span_dict' = ExportedSpanDict(span)
          /\ logging_info' = LogEntries(JsonLoadedAttributes(span.attributes))
          /\ cloud_logging' = Append(cloud_logging, LogStruct(ExportedSpanDict(span)))
    /\ span_index' = span_index + 1
    /\ UNCHANGED <<history, spans, cloud_trace>>
    /\ UNCHANGED <<lookupVars, concurrentVars>>

\* after the loop: return super().export(spans)
ExportToCloudTrace ==
    /\ span_index = Len(spans)
    /\ cloud_trace = <<>>
    /\ cloud_trace' = <<spans>>
    /\ UNCHANGED <<spans, span_index, cloud_logging>>
    /\ UNCHANGED <<truncatorVars, lookupVars, concurrentVars>>

NextExport == ExportSpan \/ ExportToCloudTrace

SpecExport == InitExport /\ [][NextExport]_vars

(***************************************************************************)
(* The tools called from concurrent tasks.  A call runs in three steps     *)
(* that interleave with the steps of the other tasks: it logs the call,    *)
(* it evaluates the dictionary literal of its table (a new object, local   *)
(* to the call), and it looks the normalized arguments up and returns.     *)
(* The analysis of a successful analyze_trends result is the very object   *)
(* held by the table of that call, so a caller that edits the returned     *)
(* record edits that table object.                                         *)
(***************************************************************************)
\* the dictionary literal of tool fn
TableLiteral(fn) == IF fn = "research_topic" THEN knowledge_base ELSE trend_analysis

\* a table kept at module level: the object the first call of fn built
SharedTable(fn, built) ==
    IF \E i \in 1..Len(built) : built[i].fn = fn
    THEN built[CHOOSE i \in 1..Len(built) :
                  built[i].fn = fn /\ \A j \in 1..(i - 1) : built[j].fn # fn]
    ELSE [fn |-> fn, value |-> TableLiteral(fn)]

\* the table object a call of fn builds, given the objects built so far:
\* the literal is evaluated anew in every call
NewTable(fn, built) == [fn |-> fn, value |-> TableLiteral(fn)]

\* the return statement of research_topic, reading table object kb
ResearchTopicReturn(kb, topic, focus_area) ==
    LET topic_normalized == Normalize(topic)
        focus_normalized == Normalize(focus_area)
    IN IF topic_normalized \in DOMAIN kb
       THEN [status |-> "success",
             research |->
                [topic |-> topic,
                 focus_area |-> focus_area,
                 insights |-> ResearchContent(kb[topic_normalized], focus_normalized),
                 methodology |-> "Analysis based on existing knowledge base",
                 last_updated |-> "Knowledge current as of training data"]]
       ELSE [status |-> "error", error_message |-> TopicErrorMessage(topic)]

\* the return statement of analyze_trends, reading the table object at
\* index table of the heap: analysis_ref names the object the record holds
AnalyzeTrendsReturn(heap, table, domain) ==
    LET domain_normalized == Normalize(domain)
    IN IF domain_normalized \in DOMAIN heap[table].value
       THEN [status |-> "success",
             analysis_ref |-> [table |-> table, key |-> domain_normalized],
             domain |-> domain,
             analysis_date |-> "Based on current knowledge patterns"]
       ELSE [status |-> "error", error_message |-> DomainErrorMessage(domain)]

\* the record a task holds, read through its reference
ResultValue(r) ==
    IF "analysis_ref" \in DOMAIN r
    THEN [status |-> r.status,
          analysis |-> tables[r.analysis_ref.table].value[r.analysis_ref.key],
          domain |-> r.domain,
          analysis_date |-> r.analysis_date]
    ELSE r

\* the calls the tasks make
ConcurrentCalls ==
    {[fn |-> "research_topic", topic |-> " Blockchain ", focus_area |-> "TECHNICAL"],
     [fn |-> "analyze_trends", domain |-> "technology"],
     [fn |-> "analyze_trends", domain |-> "unknown_domain"]}

IdleTask ==
    [pc |-> "idle", call |-> NoCall, table |-> 0, result |-> NoResult,
     edited |-> FALSE, after_edit |-> FALSE]

\* the calls started so far
CallsStarted ==
    Len(tables) + Cardinality({t \in DOMAIN tasks : tasks[t].pc = "logged"})

\* some table object differs from its literal
SomeTableEdited ==
    \E i \in 1..Len(tables) : tables[i].value # TableLiteral(tables[i].fn)

InitConcurrent ==
    /\ tasks = [t \in 1..MaxTasks |-> IdleTask]
    /\ tables = <<>>
    /\ TruncatorIdle
    /\ LookupIdle
    /\ ExportIdle

\* task t calls a tool: the call is logged
CallTool(t) ==
    /\ tasks[t].pc \in {"idle", "returned"}
    /\ CallsStarted < MaxCalls
    /\ \E c \in ConcurrentCalls :
          /\ tasks' = [tasks EXCEPT ![t] =
                          [pc |-> "logged", call |-> c, table |-> 0, result |-> NoResult,
                           edited |-> FALSE, after_edit |-> SomeTableEdited]]
          /\ log_text' = IF c.fn = "research_topic"
                         THEN ResearchLogText(c.topic, FocusArea(c))
                         ELSE TrendsLogText(c.domain)
    /\ UNCHANGED <<tables, call, result, spelling>>
    /\ UNCHANGED <<truncatorVars, exportVars>>

\* the call of task t evaluates its dictionary literal
BuildTable(t) ==
    /\ tasks[t].pc = "logged"
    /\ tables' = Append(tables, NewTable(tasks[t].call.fn, tables))
    /\ tasks' = [tasks EXCEPT ![t].pc = "built", ![t].table = Len(tables) + 1]
    /\ UNCHANGED lookupVars
    /\ UNCHANGED <<truncatorVars, exportVars>>

\* the call of task t looks its arguments up and returns
ReturnResult(t) ==
    /\ tasks[t].pc = "built"
    /\ LET c == tasks[t].call
       IN tasks' = [tasks EXCEPT
                       ![t].pc = "returned",
                       ![t].result =
                           IF c.fn = "research_topic"
                           THEN ResearchTopicReturn(tables[tasks[t].table].value,
                                                    c.topic, FocusArea(c))
                           ELSE AnalyzeTrendsReturn(tables, tasks[t].table, c.domain)]
    /\ UNCHANGED tables
    /\ UNCHANGED lookupVars
    /\ UNCHANGED <<truncatorVars, exportVars>>

\* the caller of task t edits the record it was returned: it appends a
\* trend label to the analysis, or overwrites the status
EditResult(t) ==
    /\ tasks[t].pc = "returned"
    /\ ~tasks[t].edited
    /\ LET r == tasks[t].result
       IN IF "analysis_ref" \in DOMAIN r
          THEN /\ tables' = [tables EXCEPT
                                ![r.analysis_ref.table].value[r.analysis_ref.key].key_trends =
                                    Append(@, "edited")]
               /\ tasks' = [tasks EXCEPT ![t].edited = TRUE]
          ELSE /\ tasks' = [tasks EXCEPT ![t].edited = TRUE, ![t].result.status = "edited"]
               /\ UNCHANGED tables
    /\ UNCHANGED lookupVars
    /\ UNCHANGED <<truncatorVars, exportVars>>

NextConcurrent ==
    \E t \in 1..MaxTasks :
        \/ CallTool(t)
        \/ BuildTable(t)
        \/ ReturnResult(t)
        \/ EditResult(t)

SpecConcurrent == InitConcurrent /\ [][NextConcurrent]_vars

(***************************************************************************)
(* Properties of the truncation step.  Pass i takes the attributes         *)
(* Before(i) and returns After(i).                                         *)
(***************************************************************************)
Passes == 1..(Len(history) - 1)
Before(i) == history[i].attributes
After(i) == history[i + 1].attributes
\* the step ran its loop in pass i and replaced the value of key
Replaced(i, key) ==
    /\ JsonLen(Before(i)) > max_size
    /\ Before(i)[key].type = "str"
    /\ Utf8Len(Before(i)[key].s) > AttrLimit

\* C1: applying the truncation step twice yields the same attributes as
\* applying it once: the second pass returns what the first pass returned.
C1_Idempotent == Len(history) >= 3 => After(2) = After(1)

\* C2: every string value the step replaces is afterwards at most the
\* per-attribute limit of 10000 bytes long (in UTF-8, the measure of the
\* step's own per-attribute test; the JSON text of a string is never shorter).
C2_SizeBound ==
    \A i \in Passes : \A key \in DOMAIN Before(i) :
        Replaced(i, key) => Utf8Len(After(i)[key].s) <= AttrLimit

\* C3: the serialized size of the attributes the step returns is at most the
\* serialized size of the attributes it was given.
C3_NeverIncreases ==
    \A i \in Passes : JsonLen(After(i)) <= JsonLen(Before(i))

\* C4: the serialized size of the attributes the step returns does not
\* exceed the 200 KB total limit.
C4_WithinLimit ==
    \A i \in Passes : JsonLen(After(i)) <= max_size

\* C5: when the serialized size of the attributes does not exceed the total
\* limit, the returned span dictionary equals the given one, and every
\* string longer than the per-attribute limit is left as it was.
C5_NoOpBelowThreshold ==
    \A i \in Passes :
        JsonLen(Before(i)) <= max_size =>
            /\ history[i + 1] = history[i]
            /\ \A key \in DOMAIN Before(i) :
                  (Before(i)[key].type = "str" /\ Utf8Len(Before(i)[key].s) > AttrLimit)
                      => After(i)[key] = Before(i)[key]

\* C5's case: a pass over attributes within the total limit that hold a
\* string longer than the per-attribute limit.
C5_Witness ==
    \E i \in Passes :
        /\ JsonLen(Before(i)) <= max_size
        /\ \E key \in DOMAIN Before(i) :
              /\ Before(i)[key].type = "str"
              /\ Utf8Len(Before(i)[key].s) > AttrLimit
              /\ After(i)[key] = Before(i)[key]

\* C6: when the step runs its loop (total size over the total limit), the
\* returned attributes have the keys of the given ones, and every value
\* that is not a string, or is a string of at most the per-attribute limit,
\* is the given value.
C6_OnlyLargeStringsReplaced ==
    \A i \in Passes :
        JsonLen(Before(i)) > max_size =>
            /\ DOMAIN After(i) = DOMAIN Before(i)
            /\ \A key \in DOMAIN Before(i) :
                  ~(Before(i)[key].type = "str" /\ Utf8Len(Before(i)[key].s) > AttrLimit)
                      => After(i)[key] = Before(i)[key]

\* C6's case: a pass over the total limit that replaced one value and kept
\* both a non-string value or a string at the per-attribute limit.
C6_Witness ==
    \E i \in Passes :
        /\ JsonLen(Before(i)) > max_size
        /\ \E key, other \in DOMAIN Before(i) :
              /\ After(i)[key] # Before(i)[key]
              /\ \/ Before(i)[other].type # "str"
                 \/ Utf8Len(Before(i)[other].s) = AttrLimit
              /\ After(i)[other] = Before(i)[other]

(***************************************************************************)
(* Properties of the knowledge lookups.                                    *)
(***************************************************************************)
Returned(fn) == call.fn = fn /\ result # NoResult
KnownTopic == spelling.topic \in DOMAIN knowledge_base
KnownFocus == spelling.focus_area \in DOMAIN knowledge_base[spelling.topic]
\* sub occurs in s
Contains(s, sub) ==
    \E i \in 1..(Len(s) - Len(sub) + 1) : SubSeq(s, i, i + Len(sub) - 1) = sub

\* C7 as stated: a call whose arguments differ from the lower-case, trimmed
\* spelling only in letter case and surrounding whitespace returns a record
\* equal to the one the call with that spelling returns.
C7_EqualResults ==
    Returned("research_topic") =>
        result = research_topic(spelling.topic, spelling.focus_area)

\* C7 as amended: such a call returns the same status and, on success, the
\* same insights, methodology and last_updated as the call with the
\* lower-case, trimmed spelling; the echoed topic and focus_area are the
\* arguments as given.
C7_SameFindings ==
    Returned("research_topic") =>
        LET plain == research_topic(spelling.topic, spelling.focus_area)
        IN /\ result.status = plain.status
           /\ result.status = "success" =>
                 /\ result.research.insights = plain.research.insights
                 /\ result.research.methodology = plain.research.methodology
                 /\ result.research.last_updated = plain.research.last_updated
                 /\ result.research.topic = call.topic
                 /\ result.research.focus_area = FocusArea(call)

\* C7's case: research_topic(" Blockchain ", "TECHNICAL") has returned.
C7_Witness ==
    /\ Returned("research_topic")
    /\ call.topic = " Blockchain "
    /\ FocusArea(call) = "TECHNICAL"
    /\ spelling.topic = "blockchain"
    /\ spelling.focus_area = "technical"
    /\ result.status = "success"

\* C8: for a known topic and a focus area known under it, research_topic
\* returns the success record with the table entry of (topic, focus area) as
\* insights, the arguments as given as topic and focus_area, and the two
\* fixed notes.
C8_KnownTopicKnownFocus ==
    (Returned("research_topic") /\ KnownTopic /\ KnownFocus) =>
        result =
            [status |-> "success",
             research |->
                [topic |-> call.topic,
                 focus_area |-> FocusArea(call),
                 insights |-> knowledge_base[spelling.topic][spelling.focus_area],
                 methodology |-> "Analysis based on existing knowledge base",
                 last_updated |-> "Knowledge current as of training data"]]

\* C8's case: a known topic and a known focus area other than general, not
\* written in lower case, have been looked up.
C8_Witness ==
    /\ Returned("research_topic")
    /\ KnownTopic
    /\ KnownFocus
    /\ spelling.focus_area # "general"
    /\ call.topic # spelling.topic
    /\ FocusArea(call) # spelling.focus_area
    /\ result.status = "success"

\* C9: for a known topic and a focus area not known under it, research_topic
\* returns a success record, never an error record, whose insights are the
\* topic's general entry.
C9_UnknownFocusFallsBack ==
    (Returned("research_topic") /\ KnownTopic /\ ~KnownFocus) =>
        /\ result.status = "success"
        /\ "error_message" \notin DOMAIN result
        /\ result.research.insights = knowledge_base[spelling.topic]["general"]

\* C9's case: a known topic has been looked up under the focus area "legal".
C9_Witness ==
    /\ Returned("research_topic")
    /\ KnownTopic
    /\ spelling.focus_area = "legal"
    /\ result.status = "success"

\* C10: an unknown topic or domain is answered with a failure record: for
\* research_topic the status "error" and a message naming the three known
\* topics; for analyze_trends exactly the status "error" and the message
\* quoting the domain as given and listing technology, business, science;
\* neither record has a research or an analysis field.
C10_UnknownIsFailureRecord ==
    /\ (Returned("research_topic") /\ ~KnownTopic) =>
          /\ DOMAIN result = {"status", "error_message"}
          /\ result.status = "error"
          /\ Contains(result.error_message, "artificial intelligence")
          /\ Contains(result.error_message, "climate change")
          /\ Contains(result.error_message, "blockchain")
    /\ (Returned("analyze_trends") /\ spelling.domain \notin DOMAIN trend_analysis) =>
          result =
             [status |-> "error",
              error_message |->
                 "Sorry, trend analysis not available for '" \o call.domain
                 \o "'. Available domains: technology, business, science."]

\* C10's case: analyze_trends(" Unknown_domain ") has returned.
C10_Witness ==
    /\ Returned("analyze_trends")
    /\ call.domain = " Unknown_domain "
    /\ result.status = "error"

\* C11: for a known domain (technology, business, science, matched after
\* lower-casing and trimming), analyze_trends returns the success record
\* whose analysis is that domain's trend structure, with exactly 5 trend
\* labels, whose domain is the argument as given, and whose analysis_date is
\* the fixed note.
C11_KnownDomain ==
    (Returned("analyze_trends") /\ spelling.domain \in {"technology", "business", "science"}) =>
        /\ DOMAIN result = {"status", "analysis", "domain", "analysis_date"}
        /\ result.status = "success"
        /\ result.analysis = trend_analysis[spelling.domain]
        /\ Len(result.analysis.key_trends) = 5
        /\ result.domain = call.domain
        /\ result.analysis_date = "Based on current knowledge patterns"

\* C11's case: analyze_trends(" Technology ") has returned.
C11_Witness ==
    /\ Returned("analyze_trends")
    /\ call.domain = " Technology "
    /\ spelling.domain = "technology"
    /\ result.status = "success"

(***************************************************************************)
(* Properties of export.                                                   *)
(***************************************************************************)
\* the i-th log_struct call carries the i-th span of the batch, annotated
\* with its trace and span identifiers and with the truncation step applied
LoggedProcessed(i) ==
    LET struct == cloud_logging[i].struct
        span == spans[i]
    IN /\ struct.trace =
             "projects/" \o project_id \o "/traces/" \o Hex(span.context.trace_id)
       /\ struct.span_id = Hex(span.context.span_id)
       /\ struct.attributes =
             ProcessedAttributes(JsonLoadedAttributes(span.attributes))

\* C12 as stated: every span forwarded to the logging sink and every span
\* forwarded to the tracing sink has the attributes the truncation step
\* returns for it.
C12_BothSinksProcessed ==
    /\ \A i \in 1..Len(cloud_logging) : LoggedProcessed(i)
    /\ \A b \in 1..Len(cloud_trace) : \A i \in 1..Len(cloud_trace[b]) :
          JsonLoadedAttributes(cloud_trace[b][i].attributes) =
             ProcessedAttributes(JsonLoadedAttributes(spans[i].attributes))

\* C12 as amended: every span is annotated and has the truncation step
\* applied before it is forwarded to the logging sink; the tracing sink is
\* given the batch of spans as it came, once, after every span was logged.
C12_LoggingSinkProcessed ==
    /\ Len(cloud_logging) = span_index
    /\ \A i \in 1..Len(cloud_logging) : LoggedProcessed(i)
    /\ cloud_trace # <<>> =>
          /\ cloud_trace = <<spans>>
          /\ Len(cloud_logging) = Len(spans)

\* C12's case: a batch of two spans has reached both sinks, the first span
\* with trace identifier 255, and the truncation step changed the
\* attributes of one of them.
C12_Witness ==
    /\ Len(spans) = 2
    /\ cloud_trace = <<spans>>
    /\ Len(cloud_logging) = 2
    /\ cloud_logging[1].struct.trace = "projects/researcher-project/traces/ff"
    /\ cloud_logging[1].struct.span_id = "a"
    /\ \E i \in 1..2 :
          cloud_logging[i].struct.attributes # JsonLoadedAttributes(spans[i].attributes)

(***************************************************************************)
(* Properties of the log entries of the truncation step.                   *)
(***************************************************************************)
\* the number of entries of logging_info equal to entry
Occurrences(entry) ==
    Cardinality({n \in 1..Len(logging_info) : logging_info[n] = entry})

\* C14: a run of the truncation step emits one entry per truncated key, and
\* one summary entry if any value was truncated; a run that truncates no
\* value emits no entry.
C14_TruncationLog ==
    Len(history) >= 2 =>
        LET i == Len(history) - 1
            truncated == {key \in DOMAIN Before(i) : Replaced(i, key)}
            summary == IF truncated # {} THEN 1 ELSE 0
        IN /\ \A key \in DOMAIN Before(i) :
                 Occurrences(TruncatedEntry(key)) = (IF key \in truncated THEN 1 ELSE 0)
           /\ Occurrences(ProcessedEntry) = summary
           /\ Len(logging_info) = Cardinality(truncated) + summary

(***************************************************************************)
(* Properties of the tools under concurrent calls.                         *)
(***************************************************************************)
\* what the call returns when it runs alone
Alone(c) ==
    IF c.fn = "research_topic"
    THEN research_topic(c.topic, FocusArea(c))
    ELSE analyze_trends(c.domain)

\* C13: in every interleaving of the calls of the tasks, and after any
\* earlier calls and any edits of earlier returned records, a call returns
\* what it returns when run alone with the same arguments, and the table a
\* call reads is the table of the source.
C13_SameAsAlone ==
    \A t \in DOMAIN tasks :
        /\ (tasks[t].pc = "returned" /\ ~tasks[t].edited) =>
              ResultValue(tasks[t].result) = Alone(tasks[t].call)
        /\ tasks[t].pc = "built" =>
              tables[tasks[t].table].value = TableLiteral(tasks[t].call.fn)

\* C13's case: a task has returned from analyze_trends("technology"), a
\* call it started after another task edited the record the same call had
\* returned to it, while that other task is inside its next call.
C13_Witness ==
    \E t, u \in DOMAIN tasks :
        /\ t # u
        /\ tasks[t].pc = "returned"
        /\ ~tasks[t].edited
        /\ tasks[t].after_edit
        /\ tasks[t].call = [fn |-> "analyze_trends", domain |-> "technology"]
        /\ tables[1].fn = "analyze_trends"
        /\ tables[1].value["technology"] # trend_analysis["technology"]
        /\ tasks[t].table > 1
        /\ tasks[u].pc = "built"

====
